---- MODULE Spec2Model ----
(***************************************************************************)
(* Model of pattern_extractor.py: extraction of generalized regex patterns *)
(* from dot-separated keys.                                                *)
(*                                                                         *)
(* A Python str is modelled as a sequence of characters; a character is a  *)
(* one-character TLA+ string, except the two non-ASCII digits U+00B2 and   *)
(* U+0663, written "sup2" and "ar3".  A dict is modelled as the sequence   *)
(* of its items in insertion order, a set as a set.                        *)
(***************************************************************************)
EXTENDS Naturals, Sequences, FiniteSets

VARIABLES pc, keys, pattern_counts, total_keys, result, segment, processed, escaped

vars == <<pc, keys, pattern_counts, total_keys, result, segment, processed, escaped>>

(***************************************************************************)
(* Bounds.                                                                 *)
(***************************************************************************)
\* longest input list of extract_generalized_patterns
MaxKeys == 4
\* longest segment handed to the per-segment operations
MaxSegLen == 2
\* largest total_keys handed to _apply_frequency_generalization directly
MaxTotal == 20

(***************************************************************************)
(* Characters.                                                             *)
(***************************************************************************)
\* special_chars = r'\.^$*+?{}[]|()'
special_chars == {"\\", ".", "^", "$", "*", "+", "?", "{", "}", "[", "]", "|", "(", ")"}

\* the characters c of the model's alphabet with c.isdigit() true in Python:
\* the ASCII digits, U+00B2 SUPERSCRIPT TWO (Numeric_Type=Digit) and U+0663
\* ARABIC-INDIC DIGIT THREE (Numeric_Type=Decimal)
AsciiDigits == {"0", "1", "2", "3", "4", "5", "6", "7", "8", "9"}

IsDigitChars == AsciiDigits \cup {"sup2", "ar3"}

\* the characters str.strip() removes
Whitespace == {" ", "\t", "\n", "\r"}

(***************************************************************************)
(* str operations, computed as Python computes them.                       *)
(***************************************************************************)
\* s[i:] for a 1-based i
Drop(s, n) == SubSeq(s, n + 1, Len(s))

\* s.startswith(sep)
StartsWith(s, sep) == Len(s) >= Len(sep) /\ SubSeq(s, 1, Len(sep)) = sep

\* s.split(sep) for a non-empty sep: the leftmost non-overlapping occurrences
\* of sep cut s; n pieces for n-1 occurrences, empty pieces kept
RECURSIVE SplitFrom(_, _, _)
SplitFrom(s, sep, cur) ==
    IF s = << >> THEN << cur >>
    ELSE IF StartsWith(s, sep)
         THEN << cur >> \o SplitFrom(Drop(s, Len(sep)), sep, << >>)
         ELSE SplitFrom(Tail(s), sep, Append(cur, Head(s)))

StrSplit(s, sep) == SplitFrom(s, sep, << >>)

\* sep.join(parts)
RECURSIVE StrJoin(_, _)
StrJoin(sep, parts) ==
    IF parts = << >> THEN << >>
    ELSE IF Len(parts) = 1 THEN parts[1]
         ELSE parts[1] \o sep \o StrJoin(sep, Tail(parts))

\* mutant: "if not key" instead of "if not key.strip()"
IsBlankEmptyOnly(key) == key = << >>

\* not key.strip()
IsBlank(key) == \A i \in 1..Len(key) : key[i] \in Whitespace

\* segment.isdigit(): non-empty and every character is a digit character
IsDigit(seg) == Len(seg) > 0 /\ \A i \in 1..Len(seg) : seg[i] \in IsDigitChars

\* the two separators and the two wildcard tokens
Dot == << "." >>

EscapedDot == << "\\", "." >>

DigitToken == << "\\", "d", "+" >>

WordToken == << "\\", "w", "+" >>

(***************************************************************************)
(* _escape_regex_chars                                                     *)
(***************************************************************************)
\* mutant: the backslash left out of special_chars
EscapeCharNoBackslash(char) ==
    IF char \in special_chars \ {"\\"} THEN << "\\", char >> ELSE << char >>

\* one iteration of the loop over segment: escaped += '\\' + char, or += char
EscapeChar(char) == IF char \in special_chars THEN << "\\", char >> ELSE << char >>

RECURSIVE _escape_regex_chars(_)
_escape_regex_chars(seg) ==
    IF seg = << >> THEN << >>
    ELSE EscapeChar(Head(seg)) \o _escape_regex_chars(Tail(seg))

(***************************************************************************)
(* _extract_basic_patterns                                                 *)
(***************************************************************************)
\* the body of the loop over segments: '\\d+' or the escaped segment
ProcessSegment(seg) == IF IsDigit(seg) THEN DigitToken ELSE _escape_regex_chars(seg)

\* segments = key.split('.'); pattern = '\\.'.join(processed_segments)
ProcessedSegments(key) ==
    LET segments == StrSplit(key, Dot)
    IN  [i \in 1..Len(segments) |-> ProcessSegment(segments[i])]

KeyPattern(key) == StrJoin(EscapedDot, ProcessedSegments(key))

\* pattern_counts[pattern] += 1 on a defaultdict(int): the item is updated in
\* place, or appended with count 1 when the pattern is new
Increment(counts, pattern) ==
    IF \E i \in 1..Len(counts) : counts[i][1] = pattern
    THEN [i \in 1..Len(counts) |->
            IF counts[i][1] = pattern THEN << pattern, counts[i][2] + 1 >> ELSE counts[i]]
    ELSE Append(counts, << pattern, 1 >>)

\* the loop over keys, from the counts so far
RECURSIVE BasicFrom(_, _)
BasicFrom(ks, counts) ==
    IF ks = << >> THEN counts
    ELSE IF IsBlank(Head(ks))
         THEN BasicFrom(Tail(ks), counts)
         ELSE BasicFrom(Tail(ks), Increment(counts, KeyPattern(Head(ks))))

_extract_basic_patterns(ks) == BasicFrom(ks, << >>)

(***************************************************************************)
(* _apply_frequency_generalization                                         *)
(***************************************************************************)
\* the two thresholds of the generalization rules
LowThreshold == 75

HighThreshold == 95

\* segments = pattern.split('\\.') and the item the pattern adds to its group:
\* << prefix, << pattern, final_segment, count >> >>
GroupItem(pattern, count) ==
    LET segments == StrSplit(pattern, EscapedDot)
    IN  IF Len(segments) > 1
        THEN << StrJoin(EscapedDot, SubSeq(segments, 1, Len(segments) - 1)),
                << pattern, segments[Len(segments)], count >> >>
        ELSE << pattern, << pattern, << >>, count >> >>

\* mutant: prefix_groups[prefix] = [item] instead of .append(item)
GroupAssign(groups, prefix, item) ==
    IF \E i \in 1..Len(groups) : groups[i][1] = prefix
    THEN [i \in 1..Len(groups) |->
            IF groups[i][1] = prefix THEN << prefix, << item >> >> ELSE groups[i]]
    ELSE Append(groups, << prefix, << item >> >>)

\* prefix_groups[prefix].append(item) on a defaultdict(list): groups is the
\* sequence of << prefix, list >> in insertion order
GroupAppend(groups, prefix, item) ==
    IF \E i \in 1..Len(groups) : groups[i][1] = prefix
    THEN [i \in 1..Len(groups) |->
            IF groups[i][1] = prefix
            THEN << prefix, Append(groups[i][2], item) >>
            ELSE groups[i]]
    ELSE Append(groups, << prefix, << item >> >>)

\* the loop over pattern_counts.items() that builds prefix_groups
RECURSIVE GroupsFrom(_, _)
GroupsFrom(counts, groups) ==
    IF counts = << >> THEN groups
    ELSE LET it == GroupItem(Head(counts)[1], Head(counts)[2])
         IN  GroupsFrom(Tail(counts), GroupAppend(groups, it[1], it[2]))

PrefixGroups(counts) == GroupsFrom(counts, << >>)

\* sum(count for _, _, count in group_patterns)
RECURSIVE SumCounts(_)
SumCounts(group_patterns) ==
    IF group_patterns = << >> THEN 0
    ELSE Head(group_patterns)[3] + SumCounts(Tail(group_patterns))

\* the patterns of a group, as the loops "for pattern, _, _ in group_patterns:
\* final_patterns.add(pattern)" add them
Members(group_patterns) == {group_patterns[i][1] : i \in 1..Len(group_patterns)}

\* mutant: len(group_patterns) == 0 instead of == 1
IsEmptyGroup(group_patterns) == Len(group_patterns) = 0

\* len(group_patterns) == 1
IsSingleGroup(group_patterns) == Len(group_patterns) = 1

\* frequency_percentage = (total_group_keys / total_keys) * 100 and its two
\* comparisons.  The float tests agree with the exact integer tests below for
\* every 0 <= total_group_keys <= total_keys <= 400 (the quotient is correctly
\* rounded, 0.75 is a float, and fl(0.95) * 100 rounds to 95.0).
BelowLow(total_group_keys, tk) == total_group_keys * 100 < LowThreshold * tk

\* mutant: frequency_percentage > 95 instead of >= 95
AboveHigh(total_group_keys, tk) == total_group_keys * 100 > HighThreshold * tk

AtLeastHigh(total_group_keys, tk) == total_group_keys * 100 >= HighThreshold * tk

\* generalized_pattern = prefix + '\\.' + '\\w+'
GeneralizedPattern(prefix) == prefix \o EscapedDot \o WordToken

\* mutant: the "if prefix:" test of the 75-95 branch left out
GroupEmitsNoPrefixTest(prefix, group_patterns, tk) ==
    IF IsSingleGroup(group_patterns)
    THEN {group_patterns[1][1]}
    ELSE LET total_group_keys == SumCounts(group_patterns)
         IN  IF BelowLow(total_group_keys, tk)
             THEN Members(group_patterns)
             ELSE IF AtLeastHigh(total_group_keys, tk)
                  THEN Members(group_patterns)
                  ELSE {GeneralizedPattern(prefix)}

\* what one iteration of the loop over prefix_groups.items() adds to
\* final_patterns
GroupEmits(prefix, group_patterns, tk) ==
    IF IsSingleGroup(group_patterns)
    THEN {group_patterns[1][1]}
    ELSE LET total_group_keys == SumCounts(group_patterns)
         IN  IF BelowLow(total_group_keys, tk)
             THEN Members(group_patterns)
             ELSE IF AtLeastHigh(total_group_keys, tk)
                  THEN Members(group_patterns)
                  ELSE IF prefix # << >>
                       THEN {GeneralizedPattern(prefix)}
                       ELSE Members(group_patterns)

_apply_frequency_generalization(counts, tk) ==
    LET prefix_groups == PrefixGroups(counts)
    IN  UNION {GroupEmits(prefix_groups[i][1], prefix_groups[i][2], tk) :
                 i \in 1..Len(prefix_groups)}

(***************************************************************************)
(* extract_generalized_patterns                                            *)
(***************************************************************************)
extract_generalized_patterns(ks) ==
    IF ks = << >> THEN {}
    ELSE _apply_frequency_generalization(_extract_basic_patterns(ks), Len(ks))

(***************************************************************************)
(* Inputs.                                                                 *)
(***************************************************************************)
\* the keys the input lists are drawn from: both kinds of blank key, a
\* single-segment key, keys that share its pattern as prefix (a literal, two
\* numerals and a non-word final segment), a three-segment key with a special
\* character, a key with a non-ASCII digit segment, and two keys that start
\* with the delimiter
KeyPool ==
    { << >>,
      << " " >>,
      << "u" >>,
      << "u", ".", "a" >>,
      << "u", ".", "1" >>,
      << "u", ".", "2" >>,
      << "u", ".", "-" >>,
      << "v", "+", ".", "1", ".", "a" >>,
      << "x", ".", "ar3" >>,
      << ".", "a" >>,
      << ".", "b" >> }

KeyLists == UNION {[1..n -> KeyPool] : n \in 0..MaxKeys}

\* the characters segments are drawn from: the special characters, letters
\* (among them the d and w of the wildcard tokens), digits, and others
SegAlphabet == special_chars \cup {"a", "d", "w", "1", "sup2", "ar3", " ", "-"}

Segments == UNION {[1..n -> SegAlphabet] : n \in 0..MaxSegLen}

\* the Phase 1 patterns the histograms handed to Phase 2 are built from: the
\* single-segment u, two with prefix u, two with the empty prefix
FreqPatterns ==
    << KeyPattern(<< "u" >>),
       KeyPattern(<< "u", ".", "a" >>),
       KeyPattern(<< "u", ".", "1" >>),
       KeyPattern(<< ".", "a" >>),
       KeyPattern(<< ".", "b" >>) >>

\* the items of a histogram with the given counts, zero counts left out
RECURSIVE HistogramFrom(_, _)
HistogramFrom(cnt, i) ==
    IF i > Len(FreqPatterns) THEN << >>
    ELSE IF cnt[i] = 0
         THEN HistogramFrom(cnt, i + 1)
         ELSE << << FreqPatterns[i], cnt[i] >> >> \o HistogramFrom(cnt, i + 1)

RECURSIVE SumTo(_, _)
SumTo(cnt, i) == IF i = 0 THEN 0 ELSE cnt[i] + SumTo(cnt, i - 1)

(***************************************************************************)
(* The state machine.  pc is the position of the call in progress.         *)
(***************************************************************************)
\* a call of extract_generalized_patterns(keys)
Init ==
    /\ pc = "call"
    /\ keys \in KeyLists
    /\ pattern_counts = << >>
    /\ total_keys = 0
    /\ result = {}
    /\ segment = << >>
    /\ processed = << >>
    /\ escaped = << >>

\* if not keys: return set()
ReturnEmpty ==
    /\ pc = "call"
    /\ keys = << >>
    /\ pc' = "done"
    /\ result' = {}
    /\ UNCHANGED <<keys, pattern_counts, total_keys, segment, processed, escaped>>

\* basic_patterns = _extract_basic_patterns(keys)
Phase1 ==
    /\ pc = "call"
    /\ keys # << >>
    /\ pc' = "phase1"
    /\ pattern_counts' = _extract_basic_patterns(keys)
    /\ UNCHANGED <<keys, total_keys, result, segment, processed, escaped>>

\* generalized_patterns = _apply_frequency_generalization(basic_patterns,
\* len(keys)); return generalized_patterns
Phase2 ==
    /\ pc = "phase1"
    /\ pc' = "done"
    /\ total_keys' = Len(keys)
    /\ result' = _apply_frequency_generalization(pattern_counts, Len(keys))
    /\ UNCHANGED <<keys, pattern_counts, segment, processed, escaped>>

Next == ReturnEmpty \/ Phase1 \/ Phase2

Spec == Init /\ [][Next]_vars

\* a direct call of _apply_frequency_generalization(pattern_counts,
\* total_keys) with a histogram of Phase 1 patterns and a total that is at
\* least the sum of the counts, as len(keys) is
InitFreq ==
    /\ pc = "freq"
    /\ \E cnt \in [1..Len(FreqPatterns) -> 0..MaxTotal] :
         /\ SumTo(cnt, Len(FreqPatterns)) <= MaxTotal
         /\ pattern_counts = HistogramFrom(cnt, 1)
         /\ total_keys \in 1..MaxTotal
         /\ SumTo(cnt, Len(FreqPatterns)) <= total_keys
    /\ keys = << >>
    /\ result = {}
    /\ segment = << >>
    /\ processed = << >>
    /\ escaped = << >>

ApplyFrequencyGeneralization ==
    /\ pc = "freq"
    /\ pc' = "freq_done"
    /\ result' = _apply_frequency_generalization(pattern_counts, total_keys)
    /\ UNCHANGED <<keys, pattern_counts, total_keys, segment, processed, escaped>>

NextFreq == ApplyFrequencyGeneralization

SpecFreq == InitFreq /\ [][NextFreq]_vars

\* the per-segment operations on one segment
InitSegment ==
    /\ pc = "segment"
    /\ segment \in Segments
    /\ keys = << >>
    /\ pattern_counts = << >>
    /\ total_keys = 0
    /\ result = {}
    /\ processed = << >>
    /\ escaped = << >>

\* a call of _escape_regex_chars(segment)
EscapeRegexChars ==
    /\ pc = "segment"
    /\ pc' = "escaped"
    /\ escaped' = _escape_regex_chars(segment)
    /\ UNCHANGED <<keys, pattern_counts, total_keys, result, segment, processed>>

\* one iteration of the loop over segments in _extract_basic_patterns
ClassifySegment ==
    /\ pc = "segment"
    /\ pc' = "processed"
    /\ processed' = ProcessSegment(segment)
    /\ UNCHANGED <<keys, pattern_counts, total_keys, result, segment, escaped>>

NextSegment == EscapeRegexChars \/ ClassifySegment

SpecSegment == InitSegment /\ [][NextSegment]_vars

(***************************************************************************)
(* Regex matching, as the claims about matching state it (Python's re on   *)
(* str): a backslash followed by d or w is a character class, a backslash  *)
(* followed by another character is that character, an unescaped + makes   *)
(* the atom before it match one or more times, any other character is      *)
(* itself.                                                                 *)
(***************************************************************************)
\* \d matches a decimal digit (category Nd): U+0663 is one, U+00B2 (category
\* No) is not
RegexDigitChars == AsciiDigits \cup {"ar3"}

\* \w matches the alphanumeric characters and the underscore; both non-ASCII
\* digits are alphanumeric
RegexWordChars ==
    AsciiDigits \cup {"sup2", "ar3", "_", "a", "b", "d", "u", "v", "w", "x"}

\* the atoms of a pattern: << kind, char, plus >>
RECURSIVE Atoms(_)
Atoms(p) ==
    IF p = << >> THEN << >>
    ELSE LET esc  == Head(p) = "\\" /\ Len(p) >= 2
             c    == IF esc THEN p[2] ELSE p[1]
             kind == IF esc /\ c = "d" THEN "digit"
                     ELSE IF esc /\ c = "w" THEN "word" ELSE "lit"
             rest == IF esc THEN Drop(p, 2) ELSE Tail(p)
             plus == rest # << >> /\ Head(rest) = "+"
         IN  << << kind, c, plus >> >> \o Atoms(IF plus THEN Tail(rest) ELSE rest)

AtomMatches(atom, ch) ==
    IF atom[1] = "digit" THEN ch \in RegexDigitChars
    ELSE IF atom[1] = "word" THEN ch \in RegexWordChars
         ELSE ch = atom[2]

\* atoms i.. match s from position j to its end
RECURSIVE MatchFrom(_, _, _, _)
MatchFrom(atoms, i, s, j) ==
    IF i > Len(atoms) THEN j > Len(s)
    ELSE IF atoms[i][3]
         THEN \E k \in j..Len(s) :
                /\ \A m \in j..k : AtomMatches(atoms[i], s[m])
                /\ MatchFrom(atoms, i + 1, s, k + 1)
         ELSE /\ j <= Len(s)
              /\ AtomMatches(atoms[i], s[j])
              /\ MatchFrom(atoms, i + 1, s, j + 1)

\* re.fullmatch(p, s) is not None
FullMatch(p, s) == MatchFrom(Atoms(p), 1, s, 1)

(***************************************************************************)
(* The claims.                                                             *)
(***************************************************************************)
\* a key is blank when it is empty or has only whitespace
BlankKey(key) == \A i \in 1..Len(key) : key[i] \in {" ", "\t", "\n", "\r"}

NonBlankIndexes(ks) == {i \in 1..Len(ks) : ~BlankKey(ks[i])}

\* C1: every key of the input that is not blank is fully matched by at least
\* one pattern of the returned set
C1_Soundness ==
    pc = "done" =>
        \A i \in NonBlankIndexes(keys) : \E p \in result : FullMatch(p, keys[i])

\* C2: blank keys do not count toward the total: the returned set is the set
\* returned for the list without its blank keys
C2_BlankKeysIgnored ==
    pc = "done" =>
        result = extract_generalized_patterns(
                     SelectSeq(keys, LAMBDA k : ~BlankKey(k)))

\* the pattern a group is generalized to: its prefix, an escaped dot and the
\* word wildcard
WordPattern(prefix) == prefix \o << "\\", ".", "\\", "w", "+" >>

\* the prefix groups of the histogram handed to Phase 2: << prefix, members,
\* sum of the members' counts >>
GroupsOf(counts) ==
    LET groups == PrefixGroups(counts)
    IN  {<< groups[i][1], Members(groups[i][2]), SumCounts(groups[i][2]) >> :
            i \in 1..Len(groups)}

\* 75 <= coverage < 95 for a group of n keys among tk
InBand(n, tk) == 75 * tk <= 100 * n /\ 100 * n < 95 * tk

\* C3: a group with two or more members and a non-empty prefix is replaced by
\* prefix\.\w+, none of its members emitted, if and only if its coverage is at
\* least 75 and below 95; otherwise every member is emitted and prefix\.\w+
\* is not
C3_ThreeBandPolicy ==
    pc = "freq_done" =>
        \A g \in GroupsOf(pattern_counts) :
            (Cardinality(g[2]) >= 2 /\ g[1] # << >>) =>
                IF InBand(g[3], total_keys)
                THEN WordPattern(g[1]) \in result /\ g[2] \cap result = {}
                ELSE g[2] \subseteq result /\ WordPattern(g[1]) \notin result

\* a group of two or more members at exactly 75 percent has been generalized
C3_Witness ==
    /\ pc = "freq_done"
    /\ \E g \in GroupsOf(pattern_counts) :
         /\ Cardinality(g[2]) >= 2
         /\ g[1] # << >>
         /\ 100 * g[3] = 75 * total_keys
         /\ WordPattern(g[1]) \in result

\* the patterns of the keys of the input that have no delimiter
SingleSegmentPatterns(ks) ==
    {KeyPattern(ks[i]) : i \in {j \in NonBlankIndexes(ks) :
                                   \A m \in 1..Len(ks[j]) : ks[j][m] # "."}}

\* C4: the pattern of a key with no delimiter is in no prefix group of two or
\* more members and is in the returned set
C4_SingleSegmentKept ==
    pc = "done" =>
        \A p \in SingleSegmentPatterns(keys) :
            /\ p \in result
            /\ \A g \in GroupsOf(pattern_counts) :
                 p \in g[2] => Cardinality(g[2]) = 1

\* C5: the returned set is non-empty if and only if the input has a key that
\* is not blank
C5_NonEmptyIffNonBlankKey ==
    pc = "done" => (result # {} <=> NonBlankIndexes(keys) # {})

\* a list of blank keys only has returned the empty set
C5_Witness ==
    /\ pc = "done"
    /\ Len(keys) >= 2
    /\ NonBlankIndexes(keys) = {}
    /\ result = {}

\* ks with the keys at i and i + 1 exchanged
SwapAdjacent(ks, i) ==
    [j \in 1..Len(ks) |-> IF j = i THEN ks[i + 1] ELSE IF j = i + 1 THEN ks[i] ELSE ks[j]]

\* C6: the returned set is the set returned for the list with any two
\* adjacent keys exchanged; every list within the bounds is an input, and the
\* exchanges of adjacent keys generate every permutation, so the returned set
\* is the same for all the permutations of a list
C6_OrderIndependent ==
    pc = "done" =>
        \A i \in 1..(Len(keys) - 1) :
            extract_generalized_patterns(SwapAdjacent(keys, i)) = result

\* a list of two groups of two patterns, one pattern met twice and not in
\* consecutive places, has been processed
C6_Witness ==
    /\ pc = "done"
    /\ Len(pattern_counts) >= 2
    /\ \E i, j \in 1..Len(keys) :
         /\ j > i + 1
         /\ keys[i] = keys[j]
         /\ keys[i + 1] # keys[i]
         /\ ~BlankKey(keys[i])
    /\ \E p \in result : p = WordPattern(<< "u" >>)

\* C7: the only member of a prefix group is emitted whatever the coverage of
\* the group is, and no \w+ pattern is emitted for the group
C7_SingletonBypass ==
    pc = "freq_done" =>
        \A g \in GroupsOf(pattern_counts) :
            Cardinality(g[2]) = 1 =>
                g[2] \subseteq result /\ WordPattern(g[1]) \notin result

\* a group of one member with a coverage in the band has been emitted
C7_Witness ==
    /\ pc = "freq_done"
    /\ \E g \in GroupsOf(pattern_counts) :
         /\ Cardinality(g[2]) = 1
         /\ InBand(g[3], total_keys)
         /\ g[2] \subseteq result

\* every character of the segment is one of 0-9 and there is at least one
AsciiNumeral(seg) ==
    /\ Len(seg) > 0
    /\ \A i \in 1..Len(seg) :
         seg[i] \in {"0", "1", "2", "3", "4", "5", "6", "7", "8", "9"}

\* C8: a segment is replaced by \d+ if and only if it is non-empty and made
\* of ASCII digits only
C8_NumeralIffAsciiDigits ==
    pc = "processed" =>
        (processed = << "\\", "d", "+" >> <=> AsciiNumeral(segment))

\* the 14 metacharacters
Metacharacters ==
    {"\\", ".", "^", "$", "*", "+", "?", "{", "}", "[", "]", "|", "(", ")"}

\* the place in the escaped segment of the image of the character at i: one
\* more for each metacharacter before it
ImageAt(seg, i) == i + Cardinality({j \in 1..(i - 1) : seg[j] \in Metacharacters})

\* C9: the escaped segment is, character by character and from left to
\* right, a backslash and the character for a metacharacter, and the
\* character itself for any other; its length is the length of the segment
\* plus the number of metacharacters in it
C9_EscapingCorrect ==
    pc = "escaped" =>
        /\ Len(escaped) = ImageAt(segment, Len(segment) + 1) - 1
        /\ \A i \in 1..Len(segment) :
             IF segment[i] \in Metacharacters
             THEN /\ escaped[ImageAt(segment, i)] = "\\"
                  /\ escaped[ImageAt(segment, i) + 1] = segment[i]
             ELSE escaped[ImageAt(segment, i)] = segment[i]

\* a backslash followed by an ordinary character has been escaped to two
\* backslashes and the character
C9_Witness ==
    /\ pc = "escaped"
    /\ segment = << "\\", "a" >>
    /\ escaped = << "\\", "\\", "a" >>

\* the normalization of a key as the claim states it: numeral segments (ASCII
\* digits only) to \d+, the others escaped, joined with \.
ClaimNormalize(key) ==
    LET segments == StrSplit(key, << "." >>)
    IN  StrJoin(<< "\\", "." >>,
                [i \in 1..Len(segments) |->
                    IF AsciiNumeral(segments[i])
                    THEN << "\\", "d", "+" >>
                    ELSE _escape_regex_chars(segments[i])])

\* the count of a pattern in a histogram, 0 when it is absent
CountOf(counts, p) ==
    IF \E i \in 1..Len(counts) : counts[i][1] = p
    THEN counts[CHOOSE i \in 1..Len(counts) : counts[i][1] = p][2]
    ELSE 0

\* the histogram is exact for the normalization norm: no pattern twice, no
\* pattern with a count of 0, and for each pattern the number of keys that
\* are not blank and have it as normalization
HistogramExact(counts, ks, norm(_)) ==
    /\ \A i, j \in 1..Len(counts) : counts[i][1] = counts[j][1] => i = j
    /\ \A i \in 1..Len(counts) : counts[i][2] > 0
    /\ \A p \in {counts[i][1] : i \in 1..Len(counts)}
               \cup {norm(ks[i]) : i \in NonBlankIndexes(ks)} :
         CountOf(counts, p) = Cardinality({i \in NonBlankIndexes(ks) : norm(ks[i]) = p})

\* C10: the count of every pattern is the number of keys of the input that
\* are not blank and have that pattern as normalization
C10_HistogramExact ==
    pc = "phase1" => HistogramExact(pattern_counts, keys, ClaimNormalize)

\* the histogram is exact for the normalization the code computes, which
\* takes every str.isdigit() segment for a numeral
HistogramExactForKeyPattern ==
    pc = "phase1" => HistogramExact(pattern_counts, keys, KeyPattern)

\* C11: a group of two or more members with the empty prefix and a coverage
\* of at least 75 and below 95 has every member emitted unchanged, and the
\* pattern \.\w+ is not emitted
C11_EmptyPrefixDefence ==
    pc = "freq_done" =>
        \A g \in GroupsOf(pattern_counts) :
            (Cardinality(g[2]) >= 2 /\ g[1] = << >> /\ InBand(g[3], total_keys)) =>
                g[2] \subseteq result /\ << "\\", ".", "\\", "w", "+" >> \notin result

\* the two patterns of the keys .a and .b, in one group with the empty
\* prefix and a coverage in the band, have both been emitted
C11_Witness ==
    /\ pc = "freq_done"
    /\ \E g \in GroupsOf(pattern_counts) :
         /\ g[1] = << >>
         /\ g[2] = {<< "\\", ".", "a" >>, << "\\", ".", "b" >>}
         /\ InBand(g[3], total_keys)
         /\ g[2] \subseteq result

====
